---------------------------- MODULE Spec2Model ----------------------------
(***************************************************************************)
(* A model of the number-image pipeline:                                   *)
(*   extract_all_numbers.py  normalizer, hOCR scanner, region extractor,   *)
(*                           parallel fan-out over the books               *)
(*   build_book.py           distribution of numbers over page columns     *)
(*                                                                         *)
(* Text is modelled as a sequence of characters (one-character strings;    *)
(* "sup2" stands for the single character U+00B2, SUPERSCRIPT TWO).  File  *)
(* and book names are sequences of name atoms: single characters, or a     *)
(* whole extension such as ".jp2".                                         *)
(***************************************************************************)
EXTENDS Integers, Sequences, FiniteSets, TLC

VARIABLES
    text,      \* normalizer: the token handed to extract_number_from_text
    result,    \* normalizer: what the call produced ("pending" before it)
    hocr,      \* scanner: the OCR layout document (a sequence of pages)
    scanned,   \* scanner: what extract_numbers_from_hocr produced
    bookdirs,  \* data/raw: per book, its layout file, raster directory, rasters
    store0,    \* the artifact paths that exist before the run
    store,     \* the artifact paths that exist in data/numbers
    proc,      \* per book, the state of its process_book call
    main,      \* main: its position, the results list, the total
    writes,    \* per book, the artifact paths it saved in this run, in order
    run,       \* which run of extract_and_save_numbers this is (1 or 2)
    snap,      \* the store and counts when the first run completed
    layout,    \* build_book: the arguments of distribute_numbers_to_columns
    placed,    \* build_book: what distribute_numbers_to_columns returned
    args,      \* build_book.main: --max-number and --numbers-per-page
    numbers_dir, \* build_book.main: data/numbers, the image found per number
    build,     \* build_book.main: its position and the locals of its loop
    page_pdfs  \* build_book.main: the pages generated so far, in order

normVars == <<text, result>>
scanVars == <<hocr, scanned>>
fanVars == <<bookdirs, store0, store, proc, main, writes, run, snap>>
colVars == <<layout, placed>>
pageVars == <<args, numbers_dir, build, page_pdfs>>
vars == <<text, result, hocr, scanned, bookdirs, store0, store, proc, main, writes,
          run, snap, layout, placed, args, numbers_dir, build, page_pdfs>>

---------------------------------------------------------------------------
(* Bounds of the model.                                                    *)

\* longest generated token, in characters
MaxLen == 5

\* most word tokens in a generated layout document (over its two pages)
MaxWords == 3

\* size of the process pool (os.cpu_count() in the code)
MaxWorkers == 2

\* most numbers handed to distribute_numbers_to_columns
MaxItems == 4

\* largest image height and largest target height, in pixels
MaxHeight == 3

\* most columns
MaxColumns == 3

\* largest --max-number of a generated book
MaxPageNumber == 5

---------------------------------------------------------------------------
(* The parts of the state a specification does not use stay as they are    *)
(* here.                                                                   *)

NotScanned(s) == [state |-> s, numbers_by_image |-> <<>>]

IdleNorm ==
    /\ text = <<>>
    /\ result = [kind |-> "idle", val |-> 0]

IdleScan ==
    /\ hocr = <<>>
    /\ scanned = NotScanned("idle")

IdleFan ==
    /\ bookdirs = <<>>
    /\ store0 = {}
    /\ store = {}
    /\ proc = <<>>
    /\ main = [pc |-> "off", collected |-> {}, results |-> <<>>, total |-> 0]
    /\ writes = <<>>
    /\ run = 0
    /\ snap = [store |-> {}, count |-> 0, skipped |-> 0]

NotPlaced(s) == [state |-> s, columns |-> <<>>, numbers_used |-> 0]

IdleCols ==
    /\ layout = [numbers_with_heights |-> <<>>, num_columns |-> 0, target_height |-> 0]
    /\ placed = NotPlaced("idle")

NotBuilding(pc) ==
    [pc |-> pc, current_number |-> 1, page_num |-> 0, max_count |-> 0,
     numbers_used |-> 0, columns |-> <<>>]

IdlePages ==
    /\ args = [max_number |-> 0, numbers_per_page |-> 0]
    /\ numbers_dir = <<>>
    /\ build = NotBuilding("off")
    /\ page_pdfs = <<>>

---------------------------------------------------------------------------
(* Characters and the str methods the code uses.                           *)

DecimalChars == {"0", "1", "2", "3", "4", "5", "6", "7", "8", "9"}

\* str.isdigit() accepts every decimal digit and also digit characters that
\* are not decimals, such as SUPERSCRIPT TWO.
DigitChars == DecimalChars \cup {"sup2"}

Whitespace == {" "}

DigitVal(c) ==
    CASE c = "0" -> 0 [] c = "1" -> 1 [] c = "2" -> 2 [] c = "3" -> 3
      [] c = "4" -> 4 [] c = "5" -> 5 [] c = "6" -> 6 [] c = "7" -> 7
      [] c = "8" -> 8 [] c = "9" -> 9

LowerChar(c) ==
    CASE c = "Z" -> "z" [] c = "E" -> "e" [] c = "R" -> "r" [] c = "O" -> "o"
      [] c = "T" -> "t" [] c = "W" -> "w" [] c = "L" -> "l" [] c = "V" -> "v"
      [] OTHER -> c

Lower(s) == [i \in 1..Len(s) |-> LowerChar(s[i])]

RECURSIVE LStrip(_)
LStrip(s) ==
    IF s # <<>> /\ Head(s) \in Whitespace THEN LStrip(Tail(s)) ELSE s

RECURSIVE RStrip(_)
RStrip(s) ==
    IF s # <<>> /\ s[Len(s)] \in Whitespace
    THEN RStrip(SubSeq(s, 1, Len(s) - 1))
    ELSE s

Strip(s) == RStrip(LStrip(s))

IsDigit(s) == s # <<>> /\ \A i \in 1..Len(s) : s[i] \in DigitChars

IsDecimal(s) == s # <<>> /\ \A i \in 1..Len(s) : s[i] \in DecimalChars

RECURSIVE DecimalValue(_)
DecimalValue(s) ==
    IF s = <<>> THEN 0
    ELSE DecimalValue(SubSeq(s, 1, Len(s) - 1)) * 10 + DigitVal(s[Len(s)])

\* The three outcomes of a call: an int, None, or an exception leaving it.
IntVal(n) == [kind |-> "int", val |-> n]
NoneVal == [kind |-> "None", val |-> 0]
FloatVal == [kind |-> "float", val |-> 0]
Raised(e) == [kind |-> e, val |-> 0]

\* int(text) on a string of digit characters: ValueError unless every
\* character is a decimal digit.
ParseInt(s) == IF IsDecimal(s) THEN IntVal(DecimalValue(s)) ELSE Raised("ValueError")

---------------------------------------------------------------------------
(* word2number's word_to_num, as extract_number_from_text calls it.  The   *)
(* words "million" and "billion" cannot be spelled by the tokens of this   *)
(* model, so their indices are always -1 and their branches are left out.  *)

W_zero == <<"z", "e", "r", "o">>
W_one == <<"o", "n", "e">>
W_two == <<"t", "w", "o">>
W_three == <<"t", "h", "r", "e", "e">>
W_seven == <<"s", "e", "v", "e", "n">>
W_twelve == <<"t", "w", "e", "l", "v", "e">>
W_twenty == <<"t", "w", "e", "n", "t", "y">>
W_hundred == <<"h", "u", "n", "d", "r", "e", "d">>
W_thousand == <<"t", "h", "o", "u", "s", "a", "n", "d">>
W_point == <<"p", "o", "i", "n", "t">>

american_number_system ==
    {W_zero, W_one, W_two, W_three, W_seven, W_twelve, W_twenty, W_hundred,
     W_thousand, W_point}

decimal_words == {W_zero, W_one, W_two, W_three, W_seven}

WordValue(w) ==
    CASE w = W_zero -> 0 [] w = W_one -> 1 [] w = W_two -> 2 [] w = W_three -> 3
      [] w = W_seven -> 7 [] w = W_twelve -> 12 [] w = W_twenty -> 20
      [] w = W_hundred -> 100 [] w = W_thousand -> 1000

ReplaceChar(s, from, to) == [i \in 1..Len(s) |-> IF s[i] = from THEN to ELSE s[i]]

\* str.split(): the maximal runs of non-whitespace characters
RECURSIVE SplitWords(_, _, _)
SplitWords(s, cur, acc) ==
    IF s = <<>> THEN (IF cur = <<>> THEN acc ELSE Append(acc, cur))
    ELSE IF Head(s) \in Whitespace
         THEN SplitWords(Tail(s), <<>>, IF cur = <<>> THEN acc ELSE Append(acc, cur))
         ELSE SplitWords(Tail(s), Append(cur, Head(s)), acc)

Count(seq, x) == Cardinality({i \in 1..Len(seq) : seq[i] = x})

\* list.index(x) - 1-based here; 0 when x is not in the list
IndexOf(seq, x) ==
    IF \E i \in 1..Len(seq) : seq[i] = x
    THEN CHOOSE i \in 1..Len(seq) : seq[i] = x /\ \A j \in 1..(i - 1) : seq[j] # x
    ELSE 0

\* number_formation, from the values of the words: an int, or IndexError
\* on an empty list
FormNumber(n) ==
    IF Len(n) = 4 THEN IntVal(n[1] * n[2] + n[3] + n[4])
    ELSE IF Len(n) = 3 THEN IntVal(n[1] * n[2] + n[3])
    ELSE IF Len(n) = 2
         THEN (IF 100 \in {n[1], n[2]} THEN IntVal(n[1] * n[2]) ELSE IntVal(n[1] + n[2]))
    ELSE IF Len(n) = 0 THEN Raised("IndexError")
    ELSE IntVal(n[1])

number_formation(words) == FormNumber([i \in 1..Len(words) |-> WordValue(words[i])])

\* thousand_multiplier * 1000 + hundreds, unless one of them raised
ThousandsTotal(mult, hundreds) ==
    IF mult.kind # "int" THEN mult
    ELSE IF hundreds.kind # "int" THEN hundreds
    ELSE IntVal(mult.val * 1000 + hundreds.val)

\* the integer part of word_to_num, from the clean number words and the
\* index of "thousand" among them (0: not there)
W2NTotal(clean, th) ==
    IF Len(clean) = 0 THEN IntVal(0)
    ELSE IF Len(clean) = 1 THEN IntVal(WordValue(clean[1]))
    ELSE IF th > 0
         THEN ThousandsTotal(number_formation(SubSeq(clean, 1, th - 1)),
                             IF th # Len(clean)
                             THEN number_formation(SubSeq(clean, th + 1, Len(clean)))
                             ELSE IntVal(0))
         ELSE number_formation(clean)

\* the decimal part is added: a float when every decimal word is a digit
\* word, else nothing is added
W2NFinish(total, clean_decimal_numbers) ==
    IF total.kind # "int" THEN total
    ELSE IF clean_decimal_numbers # <<>>
            /\ \A i \in 1..Len(clean_decimal_numbers) :
                   clean_decimal_numbers[i] \in decimal_words
         THEN FloatVal
    ELSE total

\* from the clean number words and the index of "point" among them
W2NClean(clean, p) ==
    IF Len(clean) = 0 THEN Raised("ValueError")
    ELSE IF Count(clean, W_thousand) > 1 \/ Count(clean, W_point) > 1
         THEN Raised("ValueError")
    ELSE IF p > 0
         THEN W2NFinish(W2NTotal(SubSeq(clean, 1, p - 1),
                                 IndexOf(SubSeq(clean, 1, p - 1), W_thousand)),
                        SubSeq(clean, p + 1, Len(clean)))
    ELSE W2NFinish(W2NTotal(clean, IndexOf(clean, W_thousand)), <<>>)

InNumberSystem(w) == w \in american_number_system

CleanNumbers(s) == SelectSeq(SplitWords(Strip(s), <<>>, <<>>), InNumberSystem)

W2NSentence(s) ==
    IF IsDigit(s) THEN ParseInt(s)
    ELSE W2NClean(CleanNumbers(s), IndexOf(CleanNumbers(s), W_point))

word_to_num(number_sentence) ==
    W2NSentence(Lower(ReplaceChar(number_sentence, "-", " ")))

---------------------------------------------------------------------------
(* extract_number_from_text                                                *)

MaxNumber == 50000

Fall == [kind |-> "fall", val |-> 0]

\* line 25: the range check of the direct path
InRange(num) ==
    IF num.kind # "int" THEN num
    ELSE IF 0 <= num.val /\ num.val <= MaxNumber THEN num
    ELSE Fall

\* lines 20-26: the direct numeric path; Fall means control goes on to the
\* word-to-number path
DirectNumeric(t) ==
    IF ~IsDigit(t) THEN Fall
    ELSE IF Head(t) = "0" /\ Len(t) > 1 THEN NoneVal
    ELSE InRange(ParseInt(t))

\* lines 32-35: what the word-to-number result leads to
AcceptWord(num) ==
    IF num.kind = "int" /\ 1 <= num.val /\ num.val <= MaxNumber THEN num
    ELSE IF num.kind \in {"int", "float", "ValueError", "IndexError"} THEN NoneVal
    ELSE num

\* lines 30-35: the word-to-number path
WordPath(t) == AcceptWord(word_to_num(t))

DirectOrWord(t, direct) == IF direct.kind # "fall" THEN direct ELSE WordPath(t)

\* lines 14-37, on the trimmed and lower-cased token
NormalizeLowered(t) ==
    IF t = W_zero THEN IntVal(0) ELSE DirectOrWord(t, DirectNumeric(t))

extract_number_from_text(raw) == NormalizeLowered(Lower(Strip(raw)))

---------------------------------------------------------------------------
(* The tokens the normalizer is run on.                                    *)

GeneratedChars == {"0", "1", "5", "7", "-", "sup2"}

RECURSIVE SeqsUpTo(_, _)
SeqsUpTo(S, n) ==
    IF n = 0 THEN {<<>>}
    ELSE LET shorter == SeqsUpTo(S, n - 1) IN
         shorter \cup {Append(s, c) : s \in {x \in shorter : Len(x) = n - 1}, c \in S}

WordTexts ==
    {W_zero, <<"Z", "E", "R", "O">>, <<" ", "0", " ">>, <<"Z", "e", "r", "o", " ">>,
     W_twelve, <<"T", "w", "e", "l", "v", "e">>, W_point, W_thousand, W_hundred,
     <<"t", "w", "e", "n", "t", "y", "-", "t", "h", "r", "e", "e">>,
     <<"t", "w", "o", "-", "h", "u", "n", "d", "r", "e", "d">>,
     <<"t", "w", "e", "l", "v", "e", "-", "t", "h", "o", "u", "s", "a", "n", "d">>,
     <<"t", "h", "o", "u", "s", "a", "n", "d", "-", "o", "n", "e">>,
     <<"o", "n", "e", "-", "p", "o", "i", "n", "t", "-", "s", "e", "v", "e", "n">>,
     <<"z", "e", "r", "o", "-", "z", "e", "r", "o">>,
     <<"t", "h", "e">>, <<"h", "u", "n", "d", "r", "e", "d", "-", "t", "h", "o", "u",
     "s", "a", "n", "d">>}

TextInputs(n) == SeqsUpTo(GeneratedChars, n) \cup WordTexts


---------------------------------------------------------------------------
(* The hOCR title attribute and its four parsers.  A title is modelled by  *)
(* the markers it holds: each of bbox, x_wconf, image and ppageno is       *)
(* absent (None) or present with its value.  An optional value is a        *)
(* sequence of length 0 (None) or 1.                                       *)

None == <<>>
Some(v) == <<v>>

\* the empty string: no marker at all
EmptyTitle == [bbox |-> None, x_wconf |-> None, image |-> None, ppageno |-> None]

\* four integers (x0, y0, x1, y1) after "bbox"
parse_bbox(title) == title.bbox

\* the integer after "ppageno"
parse_ppageno(title) == title.ppageno

\* the number after "x_wconf", kept in tenths (90.5 is 905)
parse_confidence(title) == title.x_wconf

\* the quoted path after "image" is a sequence of segments; Path(...).name
\* keeps the last one
parse_image_path(title) ==
    IF title.image = None THEN None ELSE Some(title.image[1][Len(title.image[1])])

---------------------------------------------------------------------------
(* extract_numbers_from_hocr.  numbers_by_image is a dict in insertion     *)
(* order: a sequence of [image, numbers].  Each recorded tuple also        *)
(* carries pos, the <<page, word>> position it came from; pos is not in    *)
(* the code and is only read by the properties.                            *)

\* line 105: confidence > 90, in tenths
ConfidenceThreshold == 90

\* a plausible slip: a missing confidence marker is taken as acceptable
ConfidenceOkMissingAccepted(word_title) ==
    parse_confidence(word_title) = None
        \/ parse_confidence(word_title)[1] > ConfidenceThreshold * 10

ConfidenceOk(word_title) ==
    parse_confidence(word_title) # None
        /\ parse_confidence(word_title)[1] > ConfidenceThreshold * 10

\* lines 111-114
DictAppend(numbers_by_image, image_name, entry) ==
    IF \E i \in 1..Len(numbers_by_image) : numbers_by_image[i].image = image_name
    THEN [i \in 1..Len(numbers_by_image) |->
            IF numbers_by_image[i].image = image_name
            THEN [numbers_by_image[i] EXCEPT !.numbers = Append(@, entry)]
            ELSE numbers_by_image[i]]
    ELSE Append(numbers_by_image, [image |-> image_name, numbers |-> <<entry>>])

\* the recorded tuples of a dict, each with the raster filename it is under
\* and its place <<i, j>> in the dict
Entries(numbers_by_image) ==
    UNION {{[image |-> numbers_by_image[i].image, at |-> <<i, j>>,
             number |-> numbers_by_image[i].numbers[j].number,
             bbox |-> numbers_by_image[i].numbers[j].bbox,
             pos |-> numbers_by_image[i].numbers[j].pos] :
                j \in 1..Len(numbers_by_image[i].numbers)} :
           i \in 1..Len(numbers_by_image)}

\* a plausible slip: the value is marked seen before the confidence and
\* bbox checks
RecordWordSeenEarly(st, word, image_name, pos, number) ==
    IF st.raised \/ word.text = <<>> THEN st
    ELSE IF number.kind \notin {"int", "None"} THEN [st EXCEPT !.raised = TRUE]
    ELSE IF number.kind = "None" THEN st
    ELSE IF number.val \in st.seen THEN st
    ELSE IF word.title = EmptyTitle \/ ~ConfidenceOk(word.title)
            \/ parse_bbox(word.title) = None
         THEN [st EXCEPT !.seen = @ \cup {number.val}]
    ELSE [st EXCEPT
            !.numbers_by_image =
                DictAppend(@, image_name,
                           [number |-> number.val, bbox |-> parse_bbox(word.title)[1],
                            pos |-> pos]),
            !.seen = @ \cup {number.val}]

\* lines 91-115: the body of the loop over the words of a page, number
\* being what extract_number_from_text gave for the word's text
RecordWord(st, word, image_name, pos, number) ==
    IF st.raised \/ word.text = <<>> THEN st
    ELSE IF number.kind \notin {"int", "None"} THEN [st EXCEPT !.raised = TRUE]
    ELSE IF number.kind = "None" THEN st
    ELSE IF number.val \in st.seen THEN st
    ELSE IF word.title = EmptyTitle THEN st
    ELSE IF ~ConfidenceOk(word.title) THEN st
    ELSE IF parse_bbox(word.title) = None THEN st
    ELSE [st EXCEPT
            !.numbers_by_image =
                DictAppend(@, image_name,
                           [number |-> number.val, bbox |-> parse_bbox(word.title)[1],
                            pos |-> pos]),
            !.seen = @ \cup {number.val}]

ScanWord(st, word, image_name, pos) ==
    RecordWord(st, word, image_name, pos, extract_number_from_text(word.text))

RECURSIVE ScanWords(_, _, _, _, _)
ScanWords(st, words, image_name, p, w) ==
    IF w > Len(words) THEN st
    ELSE ScanWords(ScanWord(st, words[w], image_name, <<p, w>>), words, image_name, p, w + 1)

\* lines 84-90: one page
ScanPage(st, page, p) ==
    IF page.title = EmptyTitle \/ parse_image_path(page.title) = None THEN st
    ELSE ScanWords(st, page.words, parse_image_path(page.title)[1], p, 1)

RECURSIVE ScanPages(_, _, _)
ScanPages(st, pages, p) ==
    IF p > Len(pages) THEN st
    ELSE ScanPages(ScanPage(st, pages[p], p), pages, p + 1)

\* state "returned" with the dict, or "raised" when a token made the
\* normalizer fail
ScanResult(st) ==
    [state |-> IF st.raised THEN "raised" ELSE "returned",
     numbers_by_image |-> IF st.raised THEN <<>> ELSE st.numbers_by_image]

extract_numbers_from_hocr(doc) ==
    ScanResult(ScanPages([numbers_by_image |-> <<>>, seen |-> {}, raised |-> FALSE],
                         doc, 1))


---------------------------------------------------------------------------
(* The layout documents the scanner is run on.                             *)

BoxA == <<10, 10, 50, 30>>
BoxB == <<5, 5, 20, 20>>

WordTitle(bbox, conf) == [EmptyTitle EXCEPT !.bbox = bbox, !.x_wconf = conf]

Title95 == WordTitle(Some(BoxA), Some(950))
Title99 == WordTitle(Some(BoxB), Some(990))
Title90 == WordTitle(Some(BoxB), Some(900))
TitleNoConf == WordTitle(Some(BoxB), None)
TitleNoBox == WordTitle(None, Some(990))

T_12 == <<"1", "2">>
T_7 == <<"7">>
T_the == <<"t", "h", "e">>
T_sup2 == <<"sup2">>

Word(t, title) == [text |-> t, title |-> title]

WordChoices ==
    {Word(W_twelve, Title95), Word(T_12, Title99), Word(T_12, Title90),
     Word(T_12, TitleNoConf), Word(T_12, TitleNoBox), Word(T_7, Title95),
     Word(T_7, TitleNoConf), Word(T_the, Title99), Word(T_sup2, Title99)}

\* raster file names, as name atoms
R_c_jp2 == <<"c", ".jp2">>
R_d_jp2 == <<"d", ".jp2">>
R_b_c_jp2 == <<"b", "_", "c", ".jp2">>
R_c_tif == <<"c", ".tif">>

TmpDir == <<"t", "m", "p">>

PageTitle(r) == [EmptyTitle EXCEPT !.ppageno = Some(0), !.image = Some(<<TmpDir, r>>)]
PageTitleNoImage == [EmptyTitle EXCEPT !.ppageno = Some(0)]

Page(title, words) == [title |-> title, words |-> words]

PageTitlePairs ==
    {<<PageTitle(R_c_jp2), PageTitle(R_d_jp2)>>,
     <<PageTitle(R_c_jp2), PageTitle(R_c_jp2)>>,
     <<PageTitleNoImage, PageTitle(R_d_jp2)>>,
     <<PageTitle(R_c_jp2), EmptyTitle>>}

DocSpace(n) ==
    UNION {{<<Page(tp[1], SubSeq(ws, 1, k)), Page(tp[2], SubSeq(ws, k + 1, Len(ws)))>> :
                k \in 0..Len(ws), tp \in PageTitlePairs} :
           ws \in SeqsUpTo(WordChoices, n)}

InitScan ==
    /\ hocr \in DocSpace(MaxWords)
    /\ scanned = NotScanned("pending")
    /\ IdleNorm
    /\ IdleFan
    /\ IdleCols
    /\ IdlePages

Scan ==
    /\ scanned.state = "pending"
    /\ scanned' = extract_numbers_from_hocr(hocr)
    /\ UNCHANGED <<hocr, normVars, fanVars, colVars, pageVars>>

NextScan == Scan

SpecScan == InitScan /\ [][NextScan]_vars

InitNorm ==
    /\ text \in TextInputs(MaxLen)
    /\ result = [kind |-> "pending", val |-> 0]
    /\ IdleScan
    /\ IdleFan
    /\ IdleCols
    /\ IdlePages

Normalize ==
    /\ result.kind = "pending"
    /\ result' = extract_number_from_text(text)
    /\ UNCHANGED <<text, scanVars, fanVars, colVars, pageVars>>

NextNorm == Normalize

SpecNorm == InitNorm /\ [][NextNorm]_vars

---------------------------------------------------------------------------
(* The artifact path of extract_and_save_numbers (lines 152-153).  A path  *)
(* is <<output_dir, directory name, file name>>, each a sequence of atoms. *)

\* str(number)
RECURSIVE IntToStr(_)
IntToStr(n) ==
    LET d == CHOOSE c \in DecimalChars : DigitVal(c) = n % 10 IN
    IF n < 10 THEN <<d>> ELSE Append(IntToStr(n \div 10), d)

\* str.replace(old, new) on a sequence of atoms
ReplaceAtom(name, old, new) == [k \in 1..Len(name) |-> IF name[k] = old THEN new ELSE name[k]]

OutputPath(output_dir, number, book_name, image_name) ==
    <<output_dir, IntToStr(number),
      IntToStr(number) \o <<"_">> \o book_name \o <<"_">>
          \o ReplaceAtom(image_name, ".jp2", ".png")>>

\* main, line 195
OutputDir == <<"data/numbers">>

---------------------------------------------------------------------------
(* The books under data/raw.  Each has a name and a layout document that   *)
(* references two rasters; what varies is what is on disk.                 *)

T_5 == <<"5">>

\* page 1: "twelve"; page 2: "12" again (a duplicate) and "7"
DocPlain(r1, r2) ==
    <<Page(PageTitle(r1), <<Word(W_twelve, Title95)>>),
      Page(PageTitle(r2), <<Word(T_12, Title99), Word(T_7, Title95)>>)>>

\* page 1: "twelve" and "7"; page 2: "5"
DocTwoOnFirst(r1, r2) ==
    <<Page(PageTitle(r1), <<Word(W_twelve, Title95), Word(T_7, Title95)>>),
      Page(PageTitle(r2), <<Word(T_5, Title99)>>)>>

\* a token on which the normalizer raises
DocBadToken(r1, r2) ==
    <<Page(PageTitle(r1), <<Word(W_twelve, Title95), Word(T_sup2, Title99)>>),
      Page(PageTitle(r2), <<Word(T_7, Title95)>>)>>

BookNames == <<(<<"a">>), (<<"a", "_", "b">>), (<<"b">>)>>

Books == 1..Len(BookNames)

BookRasters == <<(<<R_b_c_jp2, R_d_jp2>>), (<<R_c_jp2, R_d_jp2>>), (<<R_c_jp2, R_c_tif>>)>>

\* what is on disk for a book: hocr is the *_hocr.html file ("none" when
\* there is none), jp2dir whether a *_jp2 directory exists, rasters the
\* state of the two referenced files in it
BookDir(doc, jp2dir, s1, s2) ==
    [hocr |-> doc, has_hocr |-> doc # <<>>, jp2dir |-> jp2dir, rasters |-> <<s1, s2>>]

PlainDoc(b) ==
    IF b = 3 THEN DocTwoOnFirst(BookRasters[b][1], BookRasters[b][2])
    ELSE DocPlain(BookRasters[b][1], BookRasters[b][2])

BookDirChoices(b) ==
    LET r == BookRasters[b]
        plain == PlainDoc(b)
    IN  {BookDir(plain, TRUE, "ok", "ok")} \cup
        (IF b = 1 THEN {BookDir(plain, TRUE, "missing", "ok"),
                        BookDir(DocBadToken(r[1], r[2]), TRUE, "ok", "ok")}
         ELSE IF b = 2 THEN {BookDir(plain, TRUE, "ok", "baddata"),
                             BookDir(plain, FALSE, "ok", "ok")}
         ELSE {BookDir(<<>>, TRUE, "ok", "ok"),
               BookDir(plain, TRUE, "ok", "badheader")})

\* the state of raster file image_name in the book's raster directory
RasterStatus(b, image_name) ==
    IF image_name = BookRasters[b][1] THEN bookdirs[b].rasters[1]
    ELSE IF image_name = BookRasters[b][2] THEN bookdirs[b].rasters[2]
    ELSE "missing"

---------------------------------------------------------------------------
(* process_book and extract_and_save_numbers, one call per book, in steps  *)
(* at the file-system operations.                                          *)

ProcInit(pc) ==
    [pc |-> pc, numbers_by_image |-> <<>>, i |-> 1, j |-> 1, img |-> "closed",
     count |-> 0, skipped |-> 0, ret |-> 0]

\* lines 134-137: the scan raised, or the loop over its dict starts
AfterScan(scan) ==
    IF scan.state = "raised" THEN ProcInit("raised")
    ELSE [ProcInit("image") EXCEPT !.numbers_by_image = scan.numbers_by_image]

Running(b) == proc[b].pc \in {"image", "number", "save"}

Finished(b) == proc[b].pc \in {"done", "raised"}

\* lines 171-189 and 130-137: a pool worker takes the next queued call (the
\* call queue is first in, first out), finds the book's files and scans
\* the layout document
StartBook(b) ==
    /\ proc[b].pc = "queued"
    /\ \A c \in Books : c < b => proc[c].pc # "queued"
    /\ Cardinality({c \in Books : Running(c)}) < MaxWorkers
    /\ proc' = [proc EXCEPT ![b] =
                  IF ~bookdirs[b].has_hocr \/ ~bookdirs[b].jp2dir
                  THEN [ProcInit("done") EXCEPT !.ret = 0]
                  ELSE AfterScan(extract_numbers_from_hocr(bookdirs[b].hocr))]
    /\ UNCHANGED <<bookdirs, store0, store, main, writes, run, snap>>

\* a plausible slip: the raster is opened without the exists() check, so a
\* missing raster raises FileNotFoundError
NextImageNoExistsCheck(b) ==
    /\ proc[b].pc = "image"
    /\ LET me == proc[b] IN
       proc' = [proc EXCEPT ![b] =
                  IF me.i > Len(me.numbers_by_image)
                  THEN [me EXCEPT !.pc = "done", !.ret = me.count]
                  ELSE LET status == RasterStatus(b, me.numbers_by_image[me.i].image) IN
                       IF status \in {"missing", "badheader"} THEN [me EXCEPT !.pc = "raised"]
                       ELSE [me EXCEPT !.pc = "number", !.j = 1, !.img = status]]
    /\ UNCHANGED <<bookdirs, store0, store, main, writes, run, snap>>

\* lines 139-148 and 167-168: the next raster of the dict, or the return
NextImage(b) ==
    /\ proc[b].pc = "image"
    /\ LET me == proc[b] IN
       proc' = [proc EXCEPT ![b] =
                  IF me.i > Len(me.numbers_by_image)
                  THEN [me EXCEPT !.pc = "done", !.ret = me.count]
                  ELSE LET status == RasterStatus(b, me.numbers_by_image[me.i].image) IN
                       IF status = "missing" THEN [me EXCEPT !.i = @ + 1]
                       ELSE IF status = "badheader" THEN [me EXCEPT !.pc = "raised"]
                       ELSE [me EXCEPT !.pc = "number", !.j = 1, !.img = status]]
    /\ UNCHANGED <<bookdirs, store0, store, main, writes, run, snap>>

\* the artifact path of the number the call is at
CurrentPath(b) ==
    LET me == proc[b]
        entry == me.numbers_by_image[me.i]
    IN  OutputPath(OutputDir, entry.numbers[me.j].number, BookNames[b], entry.image)

\* a plausible slip: the exists() check is lost and every number is saved
CheckOutputAlwaysSave(b) ==
    /\ proc[b].pc = "number"
    /\ LET me == proc[b] IN
       proc' = [proc EXCEPT ![b] =
                  IF me.j > Len(me.numbers_by_image[me.i].numbers)
                  THEN [me EXCEPT !.pc = "image", !.i = @ + 1, !.img = "closed"]
                  ELSE [me EXCEPT !.pc = "save"]]
    /\ UNCHANGED <<bookdirs, store0, store, main, writes, run, snap>>

\* lines 150-157: the next number of the raster; skip it if its artifact
\* exists
CheckOutput(b) ==
    /\ proc[b].pc = "number"
    /\ LET me == proc[b] IN
       proc' = [proc EXCEPT ![b] =
                  IF me.j > Len(me.numbers_by_image[me.i].numbers)
                  THEN [me EXCEPT !.pc = "image", !.i = @ + 1, !.img = "closed"]
                  ELSE IF CurrentPath(b) \in store
                       THEN [me EXCEPT !.skipped = @ + 1, !.j = @ + 1]
                       ELSE [me EXCEPT !.pc = "save"]]
    /\ UNCHANGED <<bookdirs, store0, store, main, writes, run, snap>>

\* a plausible slip: a saved region is not counted
SaveRegionUncounted(b) ==
    /\ proc[b].pc = "save"
    /\ IF proc[b].img = "baddata"
       THEN /\ proc' = [proc EXCEPT ![b].pc = "raised"]
            /\ UNCHANGED <<store, writes>>
       ELSE /\ store' = store \cup {CurrentPath(b)}
            /\ writes' = [writes EXCEPT ![b] = Append(@, CurrentPath(b))]
            /\ proc' = [proc EXCEPT ![b].pc = "number", ![b].j = @ + 1]
    /\ UNCHANGED <<bookdirs, store0, main, run, snap>>

\* lines 159-165: crop the region (the pixel data is decoded here, which
\* raises on a raster whose data is corrupted) and save it
SaveRegion(b) ==
    /\ proc[b].pc = "save"
    /\ IF proc[b].img = "baddata"
       THEN /\ proc' = [proc EXCEPT ![b].pc = "raised"]
            /\ UNCHANGED <<store, writes>>
       ELSE /\ store' = store \cup {CurrentPath(b)}
            /\ writes' = [writes EXCEPT ![b] = Append(@, CurrentPath(b))]
            /\ proc' = [proc EXCEPT ![b].pc = "number", ![b].j = @ + 1,
                                    ![b].count = @ + 1]
    /\ UNCHANGED <<bookdirs, store0, main, run, snap>>

---------------------------------------------------------------------------
(* main: the futures are collected as they complete, then summed.          *)

RECURSIVE SumSeq(_)
SumSeq(seq) == IF seq = <<>> THEN 0 ELSE Head(seq) + SumSeq(Tail(seq))

\* a plausible slip: no try/except around future.result()
CollectNoCatch(b) ==
    /\ main.pc = "collecting"
    /\ b \notin main.collected
    /\ Finished(b)
    /\ main' = IF proc[b].pc = "raised"
               THEN [main EXCEPT !.pc = "aborted"]
               ELSE [main EXCEPT !.collected = @ \cup {b},
                                 !.results = Append(@, proc[b].ret)]
    /\ UNCHANGED <<bookdirs, store0, store, proc, writes, run, snap>>

\* lines 206-211
Collect(b) ==
    /\ main.pc = "collecting"
    /\ b \notin main.collected
    /\ Finished(b)
    /\ main' = [main EXCEPT !.collected = @ \cup {b},
                            !.results = Append(@, IF proc[b].pc = "raised"
                                                  THEN 0 ELSE proc[b].ret)]
    /\ UNCHANGED <<bookdirs, store0, store, proc, writes, run, snap>>

\* lines 213-214
ReportTotal ==
    /\ main.pc = "collecting"
    /\ main.collected = Books
    /\ main' = [main EXCEPT !.pc = "done", !.total = SumSeq(main.results)]
    /\ UNCHANGED <<bookdirs, store0, store, proc, writes, run, snap>>

\* what an earlier run may have left in the store
EarlierStores ==
    {{}, {OutputPath(OutputDir, 12, BookNames[1], BookRasters[1][1]),
          OutputPath(OutputDir, 7, BookNames[3], BookRasters[3][1])}}

\* lines 192-204: the books are found and every call is submitted
InitFan ==
    /\ \E d1 \in BookDirChoices(1), d2 \in BookDirChoices(2), d3 \in BookDirChoices(3) :
          bookdirs = <<d1, d2, d3>>
    /\ store0 \in EarlierStores
    /\ store = store0
    /\ proc = [b \in Books |-> ProcInit("queued")]
    /\ main = [pc |-> "collecting", collected |-> {}, results |-> <<>>, total |-> 0]
    /\ writes = [b \in Books |-> <<>>]
    /\ run = 1
    /\ snap = [store |-> {}, count |-> 0, skipped |-> 0]
    /\ IdleNorm
    /\ IdleScan
    /\ IdleCols
    /\ IdlePages

NextFan ==
    \/ \E b \in Books : StartBook(b) /\ UNCHANGED <<normVars, scanVars, colVars, pageVars>>
    \/ \E b \in Books : NextImage(b) /\ UNCHANGED <<normVars, scanVars, colVars, pageVars>>
    \/ \E b \in Books : CheckOutput(b) /\ UNCHANGED <<normVars, scanVars, colVars, pageVars>>
    \/ \E b \in Books : SaveRegion(b) /\ UNCHANGED <<normVars, scanVars, colVars, pageVars>>
    \/ \E b \in Books : Collect(b) /\ UNCHANGED <<normVars, scanVars, colVars, pageVars>>
    \/ ReportTotal /\ UNCHANGED <<normVars, scanVars, colVars, pageVars>>

SpecFan == InitFan /\ [][NextFan]_vars

---------------------------------------------------------------------------
(* extract_and_save_numbers run twice in sequence on one book, with the    *)
(* same layout document, raster directory, output root and book name.      *)

\* the artifact paths of the Candidates of a book's plain layout document
CandidatePaths(b) ==
    {OutputPath(OutputDir, e.number, BookNames[b], e.image) :
        e \in Entries(extract_numbers_from_hocr(PlainDoc(b)).numbers_by_image)}

NoBook == BookDir(<<>>, FALSE, "missing", "missing")

InitTwice ==
    /\ \E b0 \in Books : \E d \in BookDirChoices(b0) :
          /\ bookdirs = [b \in Books |-> IF b = b0 THEN d ELSE NoBook]
          /\ store0 \in SUBSET CandidatePaths(b0)
          /\ proc = [b \in Books |-> ProcInit(IF b = b0 THEN "queued" ELSE "idle")]
    /\ store = store0
    /\ main = [pc |-> "off", collected |-> {}, results |-> <<>>, total |-> 0]
    /\ writes = [b \in Books |-> <<>>]
    /\ run = 1
    /\ snap = [store |-> {}, count |-> 0, skipped |-> 0]
    /\ IdleNorm
    /\ IdleScan
    /\ IdleCols
    /\ IdlePages

\* the first call returned; the same call is made again
Rerun(b) ==
    /\ main.pc = "off"
    /\ run = 1
    /\ proc[b].pc = "done"
    /\ snap' = [store |-> store, count |-> proc[b].count, skipped |-> proc[b].skipped]
    /\ run' = 2
    /\ proc' = [proc EXCEPT ![b] = ProcInit("queued")]
    /\ writes' = [writes EXCEPT ![b] = <<>>]
    /\ UNCHANGED <<bookdirs, store0, store, main>>

NextTwice ==
    \/ \E b \in Books : StartBook(b) /\ UNCHANGED <<normVars, scanVars, colVars, pageVars>>
    \/ \E b \in Books : NextImage(b) /\ UNCHANGED <<normVars, scanVars, colVars, pageVars>>
    \/ \E b \in Books : CheckOutput(b) /\ UNCHANGED <<normVars, scanVars, colVars, pageVars>>
    \/ \E b \in Books : SaveRegion(b) /\ UNCHANGED <<normVars, scanVars, colVars, pageVars>>
    \/ \E b \in Books : Rerun(b) /\ UNCHANGED <<normVars, scanVars, colVars, pageVars>>

SpecTwice == InitTwice /\ [][NextTwice]_vars

---------------------------------------------------------------------------
(* build_book.py: distribute_numbers_to_columns.  An item is a number with *)
(* the height of its image; current_column_idx counts from 0 as in the     *)
(* code, and column k of the code is columns[k + 1] here.                  *)

LoopInit(num_columns) ==
    [columns |-> [c \in 1..num_columns |-> <<>>], current_column_idx |-> 0,
     current_height |-> 0, numbers_used |-> 0, broke |-> FALSE]

\* the item is appended to the current column (lines 69-72)
AddToColumn(st, item) ==
    [st EXCEPT !.columns[st.current_column_idx + 1] = Append(@, item.number),
               !.current_height = @ + item.height,
               !.numbers_used = @ + 1]

\* a plausible slip: the last column is not checked, so the loop never
\* breaks and goes on filling the last column
PlaceNumberNoBreak(st, item, num_columns, target_height) ==
    IF st.broke THEN st
    ELSE IF st.current_height + item.height > target_height
            /\ st.current_column_idx < num_columns - 1
         THEN AddToColumn([st EXCEPT !.current_column_idx = @ + 1, !.current_height = 0],
                          item)
    ELSE AddToColumn(st, item)

\* lines 59-72: the body of the loop over the numbers
PlaceNumber(st, item, num_columns, target_height) ==
    IF st.broke THEN st
    ELSE IF st.current_height + item.height > target_height
         THEN (IF st.current_column_idx >= num_columns - 1
               THEN [st EXCEPT !.broke = TRUE]
               ELSE AddToColumn([st EXCEPT !.current_column_idx = @ + 1,
                                           !.current_height = 0], item))
    ELSE AddToColumn(st, item)

RECURSIVE PlaceAll(_, _, _, _, _)
PlaceAll(st, items, k, num_columns, target_height) ==
    IF k > Len(items) THEN st
    ELSE PlaceAll(PlaceNumber(st, items[k], num_columns, target_height), items, k + 1,
                  num_columns, target_height)

Returned(st) == [state |-> "returned", columns |-> st.columns, numbers_used |-> st.numbers_used]

distribute_numbers_to_columns(numbers_with_heights, num_columns, target_height) ==
    Returned(PlaceAll(LoopInit(num_columns), numbers_with_heights, 1, num_columns,
                      target_height))

\* numbers in sequential order from 1, as build_page_html collects them,
\* each with a height
ItemLists(n, h) ==
    {[k \in 1..Len(hs) |-> [number |-> k, height |-> hs[k]]] : hs \in SeqsUpTo(0..h, n)}

InitCols ==
    /\ layout \in [numbers_with_heights : ItemLists(MaxItems, MaxHeight),
                   num_columns : 1..MaxColumns, target_height : 1..MaxHeight]
    /\ placed = NotPlaced("pending")
    /\ IdleNorm
    /\ IdleScan
    /\ IdleFan
    /\ IdlePages

Distribute ==
    /\ placed.state = "pending"
    /\ placed' = distribute_numbers_to_columns(layout.numbers_with_heights,
                                               layout.num_columns, layout.target_height)
    /\ UNCHANGED <<layout, normVars, scanVars, fanVars, pageVars>>

NextCols == Distribute

SpecCols == InitCols /\ [][NextCols]_vars

---------------------------------------------------------------------------
(* build_book.py: get_image_for_number, build_page_html and the page loop  *)
(* of main.  data/numbers is modelled by what get_image_for_number finds   *)
(* for each number: no PNG, a PNG whose name has no _h<height> suffix, or  *)
(* a PNG with its height.  The HTML of a page is modelled by its columns.  *)

GRID_COLUMNS == 5

COLUMN_TARGET_HEIGHT_PX == 672

NoPng == [kind |-> "nopng", height |-> 0]
NoHeightSuffix == [kind |-> "noheight", height |-> 0]
Png(height) == [kind |-> "png", height |-> height]

\* lines 8-27
get_image_for_number(number, dir) ==
    IF dir[number].kind = "nopng" THEN [state |-> "FileNotFoundError", height |-> 0]
    ELSE IF dir[number].kind = "noheight" THEN [state |-> "ValueError", height |-> 0]
    ELSE [state |-> "returned", height |-> dir[number].height]

\* lines 141-144: an empty list when max_count is not positive
CollectNumbers(dir, start_number, max_count) ==
    [k \in 1..max_count |->
        [number |-> start_number + k - 1,
         height |-> get_image_for_number(start_number + k - 1, dir).height]]

\* some number of range(start_number, start_number + max_count) has no
\* usable image, so the loop of lines 142-144 raises
CollectRaises(dir, start_number, max_count) ==
    \E k \in 1..max_count :
        get_image_for_number(start_number + k - 1, dir).state # "returned"

build_page_html(dir, start_number, max_count) ==
    IF CollectRaises(dir, start_number, max_count)
    THEN [state |-> "raised", columns |-> <<>>, numbers_used |-> 0]
    ELSE distribute_numbers_to_columns(CollectNumbers(dir, start_number, max_count),
                                       GRID_COLUMNS, COLUMN_TARGET_HEIGHT_PX)

Min(a, b) == IF a <= b THEN a ELSE b

\* lines 221-222
MaxCount(numbers_per_page, max_number, current_number) ==
    Min(numbers_per_page, max_number - current_number + 1)

\* the images a generated data/numbers holds: one that fits a column with
\* room to spare and one higher than a column
ImageFiles == {NoPng, NoHeightSuffix, Png(400), Png(700)}

\* --numbers-per-page: nothing tried, one, two, the default
PerPageChoices == {0, 1, 2, 200}

InitPages ==
    /\ args \in [max_number : 0..MaxPageNumber, numbers_per_page : PerPageChoices]
    /\ numbers_dir \in [1..args.max_number -> ImageFiles]
    /\ build = NotBuilding("while")
    /\ page_pdfs = <<>>
    /\ IdleNorm
    /\ IdleScan
    /\ IdleFan
    /\ IdleCols

PageBuilt(page, max_count) ==
    IF page.state = "raised" THEN [build EXCEPT !.pc = "raised", !.max_count = max_count]
    ELSE [build EXCEPT !.pc = "built", !.max_count = max_count,
                       !.numbers_used = page.numbers_used, !.columns = page.columns]

\* lines 219-225: the loop is entered and the page is built
BuildPage ==
    /\ build.pc = "while"
    /\ build.current_number <= args.max_number
    /\ build' = PageBuilt(
           build_page_html(numbers_dir, build.current_number,
               MaxCount(args.numbers_per_page, args.max_number, build.current_number)),
           MaxCount(args.numbers_per_page, args.max_number, build.current_number))
    /\ UNCHANGED <<args, numbers_dir, page_pdfs>>

\* lines 227-229: no number fits, the loop is left
NoNumbersFit ==
    /\ build.pc = "built"
    /\ build.numbers_used = 0
    /\ build' = [build EXCEPT !.pc = "merge"]
    /\ UNCHANGED <<args, numbers_dir, page_pdfs>>

\* a plausible slip: the next page starts after the numbers tried, not after
\* the numbers placed
AdvanceByMaxCount(b) ==
    [b EXCEPT !.pc = "while", !.current_number = @ + b.max_count, !.page_num = @ + 1]

\* lines 243-244
Advance(b) ==
    [b EXCEPT !.pc = "while", !.current_number = @ + b.numbers_used, !.page_num = @ + 1]

\* lines 231-244: the page is written and converted (html_to_pdf raises
\* when the browser fails or times out), then the loop moves on
WritePage ==
    /\ build.pc = "built"
    /\ build.numbers_used # 0
    /\ \E converted \in BOOLEAN :
        IF converted
        THEN /\ page_pdfs' = Append(page_pdfs,
                     [page_num |-> build.page_num,
                      current_number |-> build.current_number,
                      end_number |-> build.current_number + build.numbers_used - 1,
                      columns |-> build.columns])
             /\ build' = Advance(build)
        ELSE /\ build' = [build EXCEPT !.pc = "raised"]
             /\ UNCHANGED page_pdfs
    /\ UNCHANGED <<args, numbers_dir>>

\* line 219: the condition of the loop fails
LoopExit ==
    /\ build.pc = "while"
    /\ build.current_number > args.max_number
    /\ build' = [build EXCEPT !.pc = "merge"]
    /\ UNCHANGED <<args, numbers_dir, page_pdfs>>

\* lines 246-248
MergePages ==
    /\ build.pc = "merge"
    /\ build' = [build EXCEPT !.pc = "done"]
    /\ UNCHANGED <<args, numbers_dir, page_pdfs>>

NextPages ==
    \/ BuildPage /\ UNCHANGED <<normVars, scanVars, fanVars, colVars>>
    \/ NoNumbersFit /\ UNCHANGED <<normVars, scanVars, fanVars, colVars>>
    \/ WritePage /\ UNCHANGED <<normVars, scanVars, fanVars, colVars>>
    \/ LoopExit /\ UNCHANGED <<normVars, scanVars, fanVars, colVars>>
    \/ MergePages /\ UNCHANGED <<normVars, scanVars, fanVars, colVars>>

\* main is one sequential process: a step that can be taken is taken
SpecPages == InitPages /\ [][NextPages]_vars /\ WF_vars(NextPages)

---------------------------------------------------------------------------
(* Properties of the normalizer.                                           *)

Normalized == result.kind \notin {"pending", "idle"}

\* C5: for every token the normalizer returns an integer in [0, 50000] or
\* None and never fails; "00", "007", "-5" and "50001" give None, "0" and
\* "zero" give 0, and 0 is returned only for a token that trimmed and
\* lower-cased is "0" or "zero".
C5_NormalizerTotal ==
    Normalized =>
        /\ result.kind \in {"int", "None"}
        /\ result.kind = "int" => (0 <= result.val /\ result.val <= 50000)
        /\ text \in {<<"0", "0">>, <<"0", "0", "7">>, <<"-", "5">>,
                     <<"5", "0", "0", "0", "1">>} => result = NoneVal
        /\ text \in {<<"0">>, W_zero} => result = IntVal(0)
        /\ result = IntVal(0) => Lower(Strip(text)) \in {<<"0">>, W_zero}

---------------------------------------------------------------------------
(* Properties of the scanner.                                              *)

Positions(doc) == UNION {{<<p, w>> : w \in 1..Len(doc[p].words)} : p \in 1..Len(doc)}

WordAt(doc, pos) == doc[pos[1]].words[pos[2]]

\* document traversal order: pages in order, words in order within a page
Before(a, b) == a[1] < b[1] \/ (a[1] = b[1] /\ a[2] < b[2])

PageResolvable(doc, p) == parse_image_path(doc[p].title) # None

ConfidenceAbove90(title) ==
    parse_confidence(title) # None /\ parse_confidence(title)[1] > 900

NormalizesTo(doc, pos, v) == extract_number_from_text(WordAt(doc, pos).text) = IntVal(v)

\* a qualifying occurrence of value v: resolvable raster filename, the token
\* normalizes to v, confidence > 90 and a bbox is present
Qualifying(doc, pos, v) ==
    /\ PageResolvable(doc, pos[1])
    /\ NormalizesTo(doc, pos, v)
    /\ ConfidenceAbove90(WordAt(doc, pos).title)
    /\ parse_bbox(WordAt(doc, pos).title) # None

QualifyingPositions(doc, v) == {pos \in Positions(doc) : Qualifying(doc, pos, v)}

FirstOf(S) == CHOOSE a \in S : \A b \in S : a = b \/ Before(a, b)

DocValues(doc) ==
    {extract_number_from_text(WordAt(doc, pos).text).val : pos \in Positions(doc)}

ScanReturned == scanned.state = "returned"

\* C1: in the returned mapping no value appears in more than one Candidate
\* (over all raster filenames), and the Candidate kept for a value is its
\* first qualifying occurrence in document order, whatever the confidence
\* of later occurrences.
C1_FirstOccurrenceWins ==
    ScanReturned =>
        LET E == Entries(scanned.numbers_by_image) IN
        /\ \A e1, e2 \in E : e1.number = e2.number => e1.at = e2.at
        /\ \A i, j \in 1..Len(scanned.numbers_by_image) :
               scanned.numbers_by_image[i].image = scanned.numbers_by_image[j].image
                   => i = j
        /\ \A v \in DocValues(hocr) \cup {e.number : e \in E} :
               LET Q == QualifyingPositions(hocr, v) IN
               IF Q = {} THEN \A e \in E : e.number # v
               ELSE \E e \in E :
                      /\ e.number = v
                      /\ e.pos = FirstOf(Q)
                      /\ Some(e.image) = parse_image_path(hocr[e.pos[1]].title)
                      /\ Some(e.bbox) = parse_bbox(WordAt(hocr, e.pos).title)

\* a value with two qualifying occurrences, the later one of higher
\* confidence, and the first one is the Candidate kept
C1_Witness ==
    /\ ScanReturned
    /\ \E e \in Entries(scanned.numbers_by_image) :
           \E later \in QualifyingPositions(hocr, e.number) :
               /\ Before(e.pos, later)
               /\ parse_confidence(WordAt(hocr, later).title)[1]
                      > parse_confidence(WordAt(hocr, e.pos).title)[1]

\* the document with the confidence marker removed from the token at pos
WithoutConfidence(doc, pos) ==
    [doc EXCEPT ![pos[1]].words[pos[2]].title.x_wconf = None]

\* C6: a token is a Candidate only with a confidence marker above 90, a bbox
\* and a resolvable raster filename; removing the confidence marker from a
\* token removes it from the Candidates; and a rejected token does not mark
\* its value as seen (a later qualifying token of that value is recorded).
C6_ConfidenceGate ==
    ScanReturned =>
        LET E == Entries(scanned.numbers_by_image) IN
        /\ \A e \in E :
               /\ ConfidenceAbove90(WordAt(hocr, e.pos).title)
               /\ parse_bbox(WordAt(hocr, e.pos).title) = Some(e.bbox)
               /\ parse_image_path(hocr[e.pos[1]].title) = Some(e.image)
        /\ \A pos \in Positions(hocr) :
               LET again == extract_numbers_from_hocr(WithoutConfidence(hocr, pos)) IN
               again.state = "returned" /\
               \A e \in Entries(again.numbers_by_image) : e.pos # pos
        /\ \A pos \in Positions(hocr) : \A v \in DocValues(hocr) :
               (/\ NormalizesTo(hocr, pos, v)
                /\ ~ConfidenceAbove90(WordAt(hocr, pos).title)
                /\ \E q \in QualifyingPositions(hocr, v) : Before(pos, q)
                /\ \A q \in QualifyingPositions(hocr, v) : Before(pos, q))
               => \E e \in E : e.number = v /\ Before(pos, e.pos)

\* a token without confidence marker is rejected, and a later qualifying
\* token of the same value is the Candidate
C6_Witness ==
    /\ ScanReturned
    /\ \E pos \in Positions(hocr) : \E e \in Entries(scanned.numbers_by_image) :
           /\ NormalizesTo(hocr, pos, e.number)
           /\ parse_confidence(WordAt(hocr, pos).title) = None
           /\ parse_bbox(WordAt(hocr, pos).title) # None
           /\ PageResolvable(hocr, pos[1])
           /\ Before(pos, e.pos)

---------------------------------------------------------------------------
(* Properties of the region extractor and of the fan-out.                  *)

PathOf(b, e) == OutputPath(OutputDir, e.number, BookNames[b], e.image)

Started(b) == proc[b].pc \in {"image", "number", "save", "done", "raised"}

Extracting(b) == bookdirs[b].has_hocr /\ bookdirs[b].jp2dir

Range(seq) == {seq[k] : k \in 1..Len(seq)}

OnPresentRaster(b) ==
    {e \in Entries(proc[b].numbers_by_image) : RasterStatus(b, e.image) # "missing"}

OnMissingRaster(b) ==
    {e \in Entries(proc[b].numbers_by_image) : RasterStatus(b, e.image) = "missing"}

\* C2: when the first run completed, the second run creates nothing
\* (returns 0), counts as skipped every Candidate whose raster file is
\* present, and leaves the store exactly as the first run left it.
C2_SecondRunIdempotent ==
    run = 2 =>
        /\ store = snap.store
        /\ \A b \in Books :
               /\ proc[b].pc # "raised"
               /\ writes[b] = <<>>
               /\ proc[b].count = 0
               /\ proc[b].pc = "done" =>
                      /\ proc[b].ret = 0
                      /\ proc[b].skipped = Cardinality(OnPresentRaster(b))

\* a second run that completed and skipped two Candidates, after a first
\* run that created an artifact
C2_Witness ==
    /\ run = 2
    /\ snap.count >= 1
    /\ \E b \in Books : proc[b].pc = "done" /\ proc[b].skipped >= 2

\* C9: the Candidates of a raster whose file is absent are dropped (not
\* created, not counted), every Candidate on a present raster is created or
\* skipped, and the document returns its count instead of failing.
C9_MissingRasterSkipped ==
    \A b \in Books :
        /\ (proc[b].pc = "done" /\ Extracting(b)) =>
               /\ \A e \in OnMissingRaster(b) : PathOf(b, e) \notin Range(writes[b])
               /\ \A e \in OnPresentRaster(b) : PathOf(b, e) \in store
               /\ proc[b].count + proc[b].skipped = Cardinality(OnPresentRaster(b))
               /\ proc[b].count = Len(writes[b])
               /\ proc[b].ret = proc[b].count
        /\ proc[b].pc = "raised" =>
               \/ extract_numbers_from_hocr(bookdirs[b].hocr).state = "raised"
               \/ \E k \in 1..2 : bookdirs[b].rasters[k] \in {"badheader", "baddata"}

\* a document returned after dropping the Candidates of a missing raster
\* and creating an artifact from a later, present raster
C9_Witness ==
    \E b \in Books :
        /\ proc[b].pc = "done"
        /\ proc[b].count >= 1
        /\ \E e1 \in OnMissingRaster(b), e2 \in OnPresentRaster(b) :
               e1.at[1] < e2.at[1] /\ PathOf(b, e2) \in Range(writes[b])

\* C3: workers of different documents never check or write the same
\* artifact path (the paths of their Candidates differ), and no artifact is
\* written twice.
C3_DisjointPaths ==
    \A b1, b2 \in Books :
        (b1 # b2 /\ Started(b1) /\ Started(b2)) =>
            /\ \A e1 \in Entries(proc[b1].numbers_by_image),
                  e2 \in Entries(proc[b2].numbers_by_image) :
                   PathOf(b1, e1) # PathOf(b2, e2)
            /\ Range(writes[b1]) \cap Range(writes[b2]) = {}

ExtensionAtoms == {".jp2", ".tif", ".png"}

\* the raster filename without its extension
WithoutExtension(name) ==
    IF name # <<>> /\ name[Len(name)] \in ExtensionAtoms
    THEN SubSeq(name, 1, Len(name) - 1)
    ELSE name

\* C7: the artifact path used for a Candidate is exactly
\* <output_root>/<value>/<value>_<document_name>_<raster filename without
\* its extension>.png
C7_ArtifactPath ==
    \A b \in Books :
        proc[b].pc = "save" =>
            LET entry == proc[b].numbers_by_image[proc[b].i]
                value == IntToStr(entry.numbers[proc[b].j].number)
            IN  CurrentPath(b) =
                    <<OutputDir, value,
                      value \o <<"_">> \o BookNames[b] \o <<"_">>
                          \o WithoutExtension(entry.image) \o <<".png">> >>

Failed(b) == ~bookdirs[b].has_hocr \/ ~bookdirs[b].jp2dir \/ proc[b].pc = "raised"

RECURSIVE SumOver(_, _)
SumOver(S, f) ==
    IF S = {} THEN 0
    ELSE LET b == CHOOSE x \in S : TRUE IN f[b] + SumOver(S \ {b}, f)

\* C4: a document whose processing fails (no layout file, no raster
\* directory, or process_book raises) contributes 0, every other document
\* is processed to completion, the total is the sum of the counts of the
\* other documents, and the run is never aborted.
C4_FanOutIsolation ==
    /\ main.pc # "aborted"
    /\ main.pc = "done" =>
           /\ \A b \in Books : Finished(b)
           /\ \A b \in Books : ~Failed(b) =>
                  /\ proc[b].pc = "done"
                  /\ proc[b].i > Len(proc[b].numbers_by_image)
                  /\ proc[b].ret = proc[b].count
           /\ main.total = SumOver({b \in Books : ~Failed(b)},
                                   [b \in Books |-> proc[b].count])

\* a run that ended with one document raised after being started, one
\* without its files, and a non-zero total from the third
C4_Witness ==
    /\ main.pc = "done"
    /\ main.total > 0
    /\ \E b \in Books : proc[b].pc = "raised"
    /\ \E b \in Books : ~Extracting(b)

\* C8 as stated: the total equals the number of artifacts created in the
\* store during the run.
C8_TotalIsArtifactsCreated ==
    main.pc = "done" => main.total = Cardinality(store \ store0)

\* C8 as amended: the total equals the number of artifact saves made in the
\* run by the documents whose processing returned; the saves a document
\* made before it raised are not counted.
C8_TotalIsSavesOfReturned ==
    main.pc = "done" =>
        main.total = SumOver({b \in Books : proc[b].pc = "done"},
                             [b \in Books |-> Len(writes[b])])

\* a run in which a document raised after it had saved an artifact, and
\* another document's saves are in the total
C8_Witness ==
    /\ main.pc = "done"
    /\ main.total > 0
    /\ \E b \in Books : proc[b].pc = "raised" /\ Len(writes[b]) > 0

---------------------------------------------------------------------------
(* Properties of the column distribution.                                  *)

RECURSIVE Flatten(_)
Flatten(columns) ==
    IF columns = <<>> THEN <<>> ELSE Head(columns) \o Flatten(Tail(columns))

\* the summed image height of the numbers in a column
RECURSIVE ColumnHeight(_, _)
ColumnHeight(column, items) ==
    IF column = <<>> THEN 0
    ELSE items[Head(column)].height + ColumnHeight(Tail(column), items)

FitsTarget ==
    \A k \in 1..Len(layout.numbers_with_heights) :
        layout.numbers_with_heights[k].height <= layout.target_height

\* C10: when every item is at most target_height high, no returned column is
\* higher than target_height, the placed items are the first numbers_used
\* items of the input in their order with the column index non-decreasing,
\* and numbers_used is the number of items over all columns.
C10_ColumnsWithinTarget ==
    (placed.state = "returned" /\ FitsTarget) =>
        /\ Len(placed.columns) = layout.num_columns
        /\ \A c \in 1..Len(placed.columns) :
               ColumnHeight(placed.columns[c], layout.numbers_with_heights)
                   <= layout.target_height
        /\ placed.numbers_used <= Len(layout.numbers_with_heights)
        /\ Flatten(placed.columns) =
               [k \in 1..placed.numbers_used |-> layout.numbers_with_heights[k].number]
        /\ placed.numbers_used = Len(Flatten(placed.columns))

\* items that fit the target, spread over two columns, with the loop
\* stopped before the last item
C10_Witness ==
    /\ placed.state = "returned"
    /\ FitsTarget
    /\ placed.numbers_used < Len(layout.numbers_with_heights)
    /\ Cardinality({c \in 1..Len(placed.columns) : Len(placed.columns[c]) >= 2}) >= 1
    /\ Cardinality({c \in 1..Len(placed.columns) : placed.columns[c] # <<>>}) >= 2

---------------------------------------------------------------------------
(* Properties of the page loop.                                            *)

\* the numbers first..last in order
NumberRange(first, last) == [i \in 1..(last - first + 1) |-> first + i - 1]

\* the pages generated so far hold consecutive ranges from 1 on, each page
\* showing the numbers of its range, and the loop stands after the last one
PagesConsecutive ==
    /\ \A k \in 1..Len(page_pdfs) :
        /\ page_pdfs[k].page_num = k - 1
        /\ page_pdfs[k].current_number =
               (IF k = 1 THEN 1 ELSE page_pdfs[k - 1].end_number + 1)
        /\ page_pdfs[k].end_number >= page_pdfs[k].current_number
        /\ page_pdfs[k].end_number <= args.max_number
        /\ Flatten(page_pdfs[k].columns) =
               NumberRange(page_pdfs[k].current_number, page_pdfs[k].end_number)
    /\ build.current_number =
           (IF page_pdfs = <<>> THEN 1 ELSE page_pdfs[Len(page_pdfs)].end_number + 1)

\* an iteration that has its page stops the loop with numbers_used = 0, or
\* moves current_number on by numbers_used >= 1, or fails in html_to_pdf
IterationStopsOrAdvances ==
    build.pc = "built" =>
        \/ /\ build.numbers_used = 0
           /\ build'.pc = "merge"
           /\ UNCHANGED page_pdfs
        \/ /\ build.numbers_used >= 1
           /\ build'.pc = "while"
           /\ build'.current_number = build.current_number + build.numbers_used
           /\ build'.current_number <= args.max_number + 1
           /\ Len(page_pdfs') = Len(page_pdfs) + 1
        \/ /\ build.numbers_used >= 1
           /\ build'.pc = "raised"
           /\ UNCHANGED page_pdfs

LoopLeft == build.pc \in {"done", "raised"}

\* C11: for every max_number and numbers_per_page >= 1 the page loop of
\* main terminates (by leaving the loop or by an error of build_page_html or
\* html_to_pdf); each iteration stops the loop or moves current_number on by
\* numbers_used >= 1; the pages cover consecutive ranges from 1 on with no
\* number skipped or repeated.
C11_PageLoopTerminates ==
    /\ [](args.numbers_per_page >= 1 => PagesConsecutive)
    /\ [][args.numbers_per_page >= 1 => IterationStopsOrAdvances]_vars
    /\ (build.pc = "while" /\ args.numbers_per_page >= 1) ~> LoopLeft

\* a finished book of two pages whose first page took fewer numbers than
\* were tried, because the columns were full
C11_Witness ==
    /\ build.pc = "done"
    /\ args.numbers_per_page >= 1
    /\ Len(page_pdfs) >= 2
    /\ page_pdfs[1].end_number < Min(args.numbers_per_page, args.max_number)
    /\ page_pdfs[Len(page_pdfs)].end_number = args.max_number

=============================================================================
